---------------------------- MODULE Spec2Model ----------------------------
(***************************************************************************)
(* The Qdrant management service: the QdrantService facade                 *)
(* (src/qdrant_service.py) and the four /qdrant endpoints                  *)
(* (src/endpoints.py) that call it, together with the remote server the    *)
(* facade talks to.  Requests run as processes that may interleave at      *)
(* every read or write of the shared _client field and at every remote     *)
(* call: the facade takes no lock.  Every remote call either succeeds or   *)
(* raises one of the exceptions the handlers distinguish.                  *)
(***************************************************************************)
EXTENDS Integers, Sequences, FiniteSets, TLC

(* ------------------------------ bounds -------------------------------- *)

\* Number of requests the service receives in a behaviour.
MaxRequests == 3

\* Number of distinct collection names in use (so the remote holds at most
\* that many collections).
MaxColls == 2

\* Two requests are in flight at once: the case the unlocked get_client is
\* about.  A finished request makes room for the next one.
Procs == {1, 2}

(* --------------------------- program values --------------------------- *)

\* self._client = None (qdrant_service.py:17); handles are numbered 1, 2, ...
NoClient == 0

\* Python's None in a report field, and a value that is present.
None == <<>>
Some(v) == <<v>>

\* QdrantConfig.get_connection_string() / _connection_params: fixed at start.
ConnStr == "http://localhost:6333"

Ops == {"connection", "collections", "create", "status"}

AllNames == <<"docs", "img", "notes", "tmp">>
CollNames == {AllNames[i] : i \in 1..MaxColls}
VectorSizes == {384}

\* Distance strings a client may post, as sequences of characters.
DistanceInputs ==
    { <<"C","o","s","i","n","e">>,
      <<"M","a","n","h","a","t","t","a","n">> }

\* models.Distance: member name -> value (docstring, qdrant_service.py:157).
DistanceEnum ==
    [n \in {"COSINE", "EUCLID", "DOT"} |->
        CASE n = "COSINE" -> "Cosine"
          [] n = "EUCLID" -> "Euclid"
          [] n = "DOT"    -> "Dot"]

LowerCase == <<"a","b","c","d","e","f","g","h","i","j","k","l","m",
               "n","o","p","q","r","s","t","u","v","w","x","y","z">>
UpperCase == <<"A","B","C","D","E","F","G","H","I","J","K","L","M",
               "N","O","P","Q","R","S","T","U","V","W","X","Y","Z">>

\* str.upper() on one character.
UpperChar(c) ==
    IF \E i \in 1..Len(LowerCase) : LowerCase[i] = c
    THEN UpperCase[CHOOSE i \in 1..Len(LowerCase) : LowerCase[i] = c]
    ELSE c

RECURSIVE Join(_)
\* The Python string made of the characters of cs.
Join(cs) == IF cs = <<>> THEN "" ELSE Head(cs) \o Join(Tail(cs))

\* distance.upper()
upper(cs) == Join([i \in 1..Len(cs) |-> UpperChar(cs[i])])

(* ----------------------------- exceptions ----------------------------- *)

Exc(t, m) == [type |-> t, msg |-> m]

\* str(e)
str(e) == e.msg

\* How a remote call can go: it succeeds ("up"), or it raises.  "silent" is
\* a failure whose exception carries no message (str(e) = "").
Faults == {"server_error", "unreachable", "silent"}
RemoteModes == {"up"} \cup Faults

RemoteExc(mode) ==
    CASE mode = "server_error" -> Exc("UnexpectedResponse", "Unexpected Response: 500")
      [] mode = "unreachable"  -> Exc("ConnectionError", "Connection refused")
      [] mode = "silent"       -> Exc("Exception", "")

\* QdrantClient(**params) with parameters the constructor rejects.
CtorExc == Exc("ValueError", "invalid connection parameters")

(* ------------------------------- state -------------------------------- *)

VARIABLES
    _client,        \* QdrantService._client
    created,        \* handles constructed so far by get_client
    paramsValid,    \* whether QdrantClient(**_connection_params) succeeds
    remoteColls,    \* the collections the remote holds, in listing order
    started,        \* requests received so far
    pc,             \* position of each request
    op,             \* endpoint of each request
    arg,            \* body of a POST /qdrant/collections request
    client,         \* local variable client of each request
    sawNone,        \* whether the request found _client None in get_client
    listing,        \* what client.get_collections() returned to the request
    calls,          \* the get_collection calls the request issued: name and how it went
    createSent,     \* whether the request's create call reached the remote
    fault,          \* the exception raised in the handler's outer try, if any
    calm,           \* no remote call of the request failed
    raced,          \* two requests were inside get_client's None branch together
    ret,            \* what the facade method did: returned a value or raised
    response        \* the HTTP response of each request

vars == <<_client, created, paramsValid, remoteColls, started, pc, op, arg, client,
          sawNone, listing, calls, createSent, fault, calm, raced, ret, response>>

shared == <<_client, created>>
env == <<paramsValid, remoteColls>>
locals == <<client, sawNone, listing, calls, createSent, fault, calm>>

NoArg == [name |-> "", vector_size |-> 0, distance |-> <<>>]
NoRet == [kind |-> "none"]
NoResponse == [code |-> 0]

Returned(v) == [kind |-> "return", value |-> v]
Raised(e) == [kind |-> "raise", exc |-> e]

Http200(body) == [code |-> 200, body |-> body]
\* raise HTTPException(status_code, detail): FastAPI answers {"detail": detail}.
HTTPException(status, detail) == [code |-> status, body |-> [detail |-> detail]]

\* A collection as the remote stores it.
Stored(name, size, distance) == [name |-> name, size |-> size, distance |-> distance]

\* The remote may already hold collections when the service starts.
InitialColls ==
    { [i \in 1..k |-> Stored(AllNames[i], 384, "Cosine")] : k \in 0..MaxColls }

Init ==
    /\ _client = NoClient
    /\ created = 0
    /\ paramsValid \in BOOLEAN
    /\ remoteColls \in InitialColls
    /\ started = 0
    /\ pc = [p \in Procs |-> "idle"]
    /\ op = [p \in Procs |-> "status"]
    /\ arg = [p \in Procs |-> NoArg]
    /\ client = [p \in Procs |-> NoClient]
    /\ sawNone = [p \in Procs |-> FALSE]
    /\ listing = [p \in Procs |-> <<>>]
    /\ calls = [p \in Procs |-> <<>>]
    /\ createSent = [p \in Procs |-> FALSE]
    /\ fault = [p \in Procs |-> None]
    /\ calm = [p \in Procs |-> TRUE]
    /\ raced = FALSE
    /\ ret = [p \in Procs |-> NoRet]
    /\ response = [p \in Procs |-> NoResponse]

(* --------------------------- the remote server ------------------------ *)

PyInt(n) == [kind |-> "int", val |-> n]
PyNone == [kind |-> "none", val |-> 0]
Absent == [kind |-> "absent", val |-> 0]

\* How the SDK exposes vectors_count / points_count on a listed description:
\* no such attribute, the attribute set to None, or an integer.
SdkShapes == {"absent", "none", "int"}

CountAttr(shape) ==
    CASE shape = "absent" -> Absent
      [] shape = "none"   -> PyNone
      [] shape = "int"    -> PyInt(0)

\* One element of client.get_collections().collections.
Description(c, shape) ==
    [name |-> c.name, vectors_count |-> CountAttr(shape), points_count |-> CountAttr(shape)]

\* client.get_collections().collections when the call succeeds.
RemoteListing(shape) ==
    [i \in 1..Len(remoteColls) |-> Description(remoteColls[i], shape)]

\* client.get_collection(name) when the call succeeds.
RemoteDetail(name) ==
    LET c == remoteColls[CHOOSE i \in 1..Len(remoteColls) : remoteColls[i].name = name]
    IN [vectors_count |-> PyInt(0),
        points_count  |-> PyInt(0),
        config        |-> [vector_size |-> c.size, distance |-> c.distance],
        status        |-> "green"]

RemoteHas(name) == \E i \in 1..Len(remoteColls) : remoteColls[i].name = name

(* ------------------- QdrantService.check_connection ------------------- *)

\* getattr(obj, attr, default)
GetAttr(attr, default) == IF attr.kind = "absent" THEN default ELSE attr

\* qdrant_service.py:38-45
InitialReport ==
    [status           |-> "disconnected",
     connection_string |-> ConnStr,
     error            |-> None,
     server_info      |-> None,
     collections      |-> <<>>,
     response_time_ms |-> None]

\* ErrorMsg with the prefixes forgotten: the exception's text alone.
ErrorMsgBare(e) == str(e)

\* The three except clauses of check_connection.
ErrorMsg(e) ==
    CASE e.type = "UnexpectedResponse" -> "Qdrant server error: " \o str(e)
      [] e.type = "ConnectionError"    -> "Connection failed: " \o str(e)
      [] OTHER                         -> "Unexpected error: " \o str(e)

FailedReport(e) == [InitialReport EXCEPT !.error = Some(ErrorMsg(e))]

\* The list comprehension of lines 60-69.  The SDK's response always has the
\* collections attribute, so the hasattr test of line 61 is true.
Summaries(L) ==
    [i \in 1..Len(L) |->
        [name          |-> L[i].name,
         vectors_count |-> GetAttr(L[i].vectors_count, PyInt(0)),
         points_count  |-> GetAttr(L[i].points_count, PyInt(0))]]

RECURSIVE Sum(_)
\* sum(...) over integers.
Sum(vals) == IF vals = <<>> THEN 0 ELSE Head(vals).val + Sum(Tail(vals))

\* sum(...) raises TypeError when an addend is None.
SumRaises(vals) == \E i \in 1..Len(vals) : vals[i].kind # "int"

SumExc == Exc("TypeError", "unsupported operand type(s) for +: 'int' and 'NoneType'")

\* check_connection filling the report field by field, the totals last.
check_connection_partial(outcome, elapsed) ==
    IF outcome.kind = "raise"
    THEN FailedReport(outcome.exc)
    ELSE LET collections == Summaries(outcome.listing)
             vectors == [i \in 1..Len(collections) |-> collections[i].vectors_count]
             points  == [i \in 1..Len(collections) |-> collections[i].points_count]
             filled  == [InitialReport EXCEPT
                            !.status = "connected",
                            !.collections = collections,
                            !.response_time_ms = Some(elapsed)]
         IN IF SumRaises(vectors) \/ SumRaises(points)
            THEN [filled EXCEPT !.error = Some(ErrorMsg(SumExc))]
            ELSE [filled EXCEPT
                     !.server_info = Some([collections_count |-> Len(collections),
                                           total_vectors |-> Sum(vectors),
                                           total_points  |-> Sum(points)])]

\* The report check_connection returns.  outcome is what get_client() followed
\* by client.get_collections() did: [kind |-> "ok", listing |-> L] or
\* [kind |-> "raise", exc |-> e]; elapsed is the measured time.
check_connection(outcome, elapsed) ==
    IF outcome.kind = "raise"
    THEN FailedReport(outcome.exc)
    ELSE LET collections == Summaries(outcome.listing)
             vectors == [i \in 1..Len(collections) |-> collections[i].vectors_count]
             points  == [i \in 1..Len(collections) |-> collections[i].points_count]
         IN IF SumRaises(vectors) \/ SumRaises(points)
            THEN FailedReport(SumExc)
            ELSE [InitialReport EXCEPT
                     !.status = "connected",
                     !.server_info = Some([collections_count |-> Len(collections),
                                           total_vectors |-> Sum(vectors),
                                           total_points  |-> Sum(points)]),
                     !.collections = collections,
                     !.response_time_ms = Some(elapsed)]

\* endpoints.py:57-64
check_qdrant_connection(r) ==
    IF r.kind = "return"
    THEN Http200(r.value)
    ELSE HTTPException(500, "Failed to check Qdrant connection: " \o str(r.exc))

(* ----------------- QdrantService.get_collections_info ----------------- *)

\* The entry built from a successful detail call (lines 119-130).
DetailInfo(name, d) ==
    [name          |-> name,
     vectors_count |-> d.vectors_count,
     points_count  |-> d.points_count,
     config        |-> d.config,
     status        |-> d.status]

\* The entry built when the detail call fails (lines 132-137).
DetailError(name, e) == [name |-> name, error |-> str(e)]

\* The inner handler is one except Exception: it treats every failure alike.
DetailModes == {"up", "unreachable"}

RECURSIVE collect_stop(_, _, _, _)
\* The loop without the inner handler's isolation: the first failing detail
\* call ends it.
collect_stop(L, modes, i, acc) ==
    IF i > Len(L)
    THEN acc
    ELSE LET name == L[i].name
             call == [name |-> name, mode |-> modes[i]]
         IN IF modes[i] = "up"
            THEN collect_stop(L, modes, i + 1,
                     [infos |-> Append(acc.infos, DetailInfo(name, RemoteDetail(name))),
                      calls |-> Append(acc.calls, call)])
            ELSE [infos |-> Append(acc.infos, DetailError(name, RemoteExc(modes[i]))),
                  calls |-> Append(acc.calls, call)]

RECURSIVE collect(_, _, _, _)
\* The for loop of lines 114-137 from its iteration i on; modes[i] is how the
\* i-th detail call goes, acc the entries and the calls made so far.
collect(L, modes, i, acc) ==
    IF i > Len(L)
    THEN acc
    ELSE LET name == L[i].name
             entry == IF modes[i] = "up"
                      THEN DetailInfo(name, RemoteDetail(name))
                      ELSE DetailError(name, RemoteExc(modes[i]))
         IN collect(L, modes, i + 1,
                    [infos |-> Append(acc.infos, entry),
                     calls |-> Append(acc.calls, [name |-> name, mode |-> modes[i]])])

\* get_collections_info swallowing the outer failure into an empty list.
get_collections_info_swallow(first, modes) ==
    IF first.kind = "raise"
    THEN [ret |-> Returned(<<>>), calls |-> <<>>]
    ELSE LET done == collect(first.listing, modes, 1, [infos |-> <<>>, calls |-> <<>>])
         IN [ret |-> Returned(done.infos), calls |-> done.calls]

\* get_collections_info: first is what get_client() followed by
\* client.get_collections() did.  The facade's outcome and the detail calls.
get_collections_info(first, modes) ==
    IF first.kind = "raise"
    THEN [ret |-> Raised(first.exc), calls |-> <<>>]
    ELSE LET done == collect(first.listing, modes, 1, [infos |-> <<>>, calls |-> <<>>])
         IN [ret |-> Returned(done.infos), calls |-> done.calls]

\* The 500 answer of GET /qdrant/collections carrying str(e) alone.
get_qdrant_collections_bare(r) ==
    IF r.kind = "return"
    THEN Http200([collections |-> r.value,
                  total_collections |-> Len(r.value),
                  connection_string |-> ConnStr])
    ELSE HTTPException(500, str(r.exc))

\* endpoints.py:75-86
get_qdrant_collections(r) ==
    IF r.kind = "return"
    THEN Http200([collections |-> r.value,
                  total_collections |-> Len(r.value),
                  connection_string |-> ConnStr])
    ELSE HTTPException(500, "Failed to get collections: " \o str(r.exc))

(* ------------------- QdrantService.create_collection ------------------ *)

\* getattr(models.Distance, distance.upper()): the member, or AttributeError.
DistanceKnown(distance) == upper(distance) \in DOMAIN DistanceEnum

DistanceExc(distance) == Exc("AttributeError", upper(distance))

\* lines 174-180
CreateSuccess(a) ==
    [success         |-> TRUE,
     collection_name |-> a.name,
     vector_size     |-> a.vector_size,
     distance        |-> Join(a.distance),
     message         |-> "Collection '" \o a.name \o "' created successfully"]

\* lines 185-191
CreateFailure(a, e) ==
    [success |-> FALSE,
     error   |-> "Failed to create collection '" \o a.name \o "': " \o str(e)]

\* The endpoint without its "except HTTPException: raise" clause: its own 400
\* is caught by "except Exception" and becomes a 500.
create_qdrant_collection_500(r) ==
    IF r.kind = "return" /\ r.value.success
    THEN Http200(r.value)
    ELSE HTTPException(500, "Failed to create collection: " \o
                            (IF r.kind = "return" THEN r.value.error ELSE str(r.exc)))

\* endpoints.py:98-119
create_qdrant_collection(r) ==
    IF r.kind = "return"
    THEN IF r.value.success
         THEN Http200(r.value)
         ELSE HTTPException(400, r.value.error)
    ELSE HTTPException(500, "Failed to create collection: " \o str(r.exc))

(* ------------------------- GET /qdrant/status ------------------------- *)

\* endpoints.py:126-143
get_qdrant_status(outcome) ==
    IF outcome.kind = "ok"
    THEN Http200([status |-> "connected",
                  collections_count |-> Len(outcome.listing),
                  connection_string |-> ConnStr,
                  message |-> "Qdrant is running and accessible"])
    ELSE Http200([status |-> "disconnected",
                  error |-> str(outcome.exc),
                  connection_string |-> ConnStr,
                  message |-> "Qdrant is not accessible"])

(* ------------------------------ requests ------------------------------ *)

ElapsedMs == {0, 12}

Ok(L) == [kind |-> "ok", listing |-> L]

\* Calling a method on None.
NoneExc(method) ==
    Exc("AttributeError", "'NoneType' object has no attribute '" \o method \o "'")

\* The request returns: the facade's outcome r and the HTTP response resp.
Finish(p, r, resp) ==
    /\ pc' = [pc EXCEPT ![p] = "done"]
    /\ ret' = [ret EXCEPT ![p] = r]
    /\ response' = [response EXCEPT ![p] = resp]

\* The rest of a GET request once get_client() and client.get_collections()
\* have gone as first says; modes is how the detail calls go.
AfterList(p, first, modes) ==
    /\ fault' = [fault EXCEPT ![p] = IF first.kind = "raise" THEN Some(first.exc) ELSE None]
    /\ listing' = [listing EXCEPT ![p] = IF first.kind = "ok" THEN first.listing ELSE <<>>]
    /\ CASE op[p] = "connection" ->
              /\ \E t \in ElapsedMs :
                    LET r == Returned(check_connection(first, t))
                    IN Finish(p, r, check_qdrant_connection(r))
              /\ UNCHANGED calls
         [] op[p] = "status" ->
              /\ Finish(p, NoRet, get_qdrant_status(first))
              /\ UNCHANGED calls
         [] op[p] = "collections" ->
              LET out == get_collections_info(first, modes)
              IN /\ Finish(p, out.ret, get_qdrant_collections(out.ret))
                 /\ calls' = [calls EXCEPT ![p] = out.calls]

\* create_collection's except path (lines 185-191) and the endpoint's answer.
CreateFails(p, e) ==
    /\ fault' = [fault EXCEPT ![p] = Some(e)]
    /\ LET r == Returned(CreateFailure(arg[p], e))
       IN Finish(p, r, create_qdrant_collection(r))

\* A request arrives at one of the four endpoints.
Start(p) ==
    /\ pc[p] \in {"idle", "done"}
    /\ started < MaxRequests
    /\ started' = started + 1
    /\ \E o \in Ops :
        /\ op' = [op EXCEPT ![p] = o]
        /\ IF o = "create"
           THEN \E n \in CollNames, v \in VectorSizes, d \in DistanceInputs :
                    arg' = [arg EXCEPT ![p] = [name |-> n, vector_size |-> v, distance |-> d]]
           ELSE arg' = [arg EXCEPT ![p] = NoArg]
    /\ pc' = [pc EXCEPT ![p] = "gc_check"]
    /\ client' = [client EXCEPT ![p] = NoClient]
    /\ sawNone' = [sawNone EXCEPT ![p] = FALSE]
    /\ listing' = [listing EXCEPT ![p] = <<>>]
    /\ calls' = [calls EXCEPT ![p] = <<>>]
    /\ createSent' = [createSent EXCEPT ![p] = FALSE]
    /\ fault' = [fault EXCEPT ![p] = None]
    /\ calm' = [calm EXCEPT ![p] = TRUE]
    /\ ret' = [ret EXCEPT ![p] = NoRet]
    /\ response' = [response EXCEPT ![p] = NoResponse]
    /\ UNCHANGED <<shared, env, raced>>

\* get_client without the None test: every call constructs a handle.
get_client_check_always(p) ==
    /\ pc[p] = "gc_check"
    /\ sawNone' = [sawNone EXCEPT ![p] = (_client = NoClient)]
    /\ pc' = [pc EXCEPT ![p] = "gc_create"]
    /\ raced' = (raced \/ (_client = NoClient /\ \E q \in Procs \ {p} : pc[q] = "gc_create"))
    /\ UNCHANGED <<shared, env, started, op, arg, client, listing, calls,
                   createSent, fault, calm, ret, response>>

\* get_client, line 22: if self._client is None
get_client_check(p) ==
    /\ pc[p] = "gc_check"
    /\ sawNone' = [sawNone EXCEPT ![p] = (_client = NoClient)]
    /\ pc' = [pc EXCEPT ![p] = IF _client = NoClient THEN "gc_create" ELSE "gc_return"]
    /\ raced' = (raced \/ (_client = NoClient /\ \E q \in Procs \ {p} : pc[q] = "gc_create"))
    /\ UNCHANGED <<shared, env, started, op, arg, client, listing, calls,
                   createSent, fault, calm, ret, response>>

\* get_client, lines 23-28: self._client = QdrantClient(**params), or re-raise
\* into the caller's handler.
get_client_create(p) ==
    /\ pc[p] = "gc_create"
    /\ IF paramsValid
       THEN /\ created' = created + 1
            /\ _client' = created + 1
            /\ pc' = [pc EXCEPT ![p] = "gc_return"]
            /\ UNCHANGED <<listing, calls, fault, ret, response>>
       ELSE /\ IF op[p] = "create"
               THEN CreateFails(p, CtorExc) /\ UNCHANGED <<listing, calls>>
               ELSE AfterList(p, Raised(CtorExc), <<>>)
            /\ UNCHANGED shared
    /\ UNCHANGED <<env, started, op, arg, client, sawNone, createSent, calm, raced>>

\* get_client returning the handle only on the path that found one: the
\* request that constructed the handle gets None.
get_client_return_else(p) ==
    /\ pc[p] = "gc_return"
    /\ client' = [client EXCEPT ![p] = IF sawNone[p] THEN NoClient ELSE _client]
    /\ pc' = [pc EXCEPT ![p] = IF op[p] = "create" THEN "create" ELSE "list"]
    /\ UNCHANGED <<shared, env, started, op, arg, sawNone, listing, calls,
                   createSent, fault, calm, raced, ret, response>>

\* get_client, line 29: return self._client, bound to the caller's client
get_client_return(p) ==
    /\ pc[p] = "gc_return"
    /\ client' = [client EXCEPT ![p] = _client]
    /\ pc' = [pc EXCEPT ![p] = IF op[p] = "create" THEN "create" ELSE "list"]
    /\ UNCHANGED <<shared, env, started, op, arg, sawNone, listing, calls,
                   createSent, fault, calm, raced, ret, response>>

\* client.get_collections() and everything the handler does after it.
list_collections(p) ==
    /\ pc[p] = "list"
    /\ IF client[p] = NoClient
       THEN /\ AfterList(p, Raised(NoneExc("get_collections")), <<>>)
            /\ UNCHANGED calm
       ELSE \E remote \in RemoteModes, shape \in SdkShapes :
              /\ shape = "absent" \/ (op[p] = "connection" /\ remote = "up")
              /\ \E modes \in [1..(IF op[p] = "collections" /\ remote = "up"
                                   THEN Len(remoteColls) ELSE 0) -> DetailModes] :
                    /\ calm' = [calm EXCEPT ![p] =
                                  /\ remote = "up"
                                  /\ \A i \in DOMAIN modes : modes[i] = "up"]
                    /\ AfterList(p, IF remote = "up" THEN Ok(RemoteListing(shape))
                                    ELSE Raised(RemoteExc(remote)), modes)
    /\ UNCHANGED <<shared, env, started, op, arg, client, sawNone, createSent, raced>>

\* create_collection passing the distance string on unchecked: the remote
\* rejects a metric it does not know.
create_collection_remote_validates(p) ==
    /\ pc[p] = "create"
    /\ LET a == arg[p]
       IN IF client[p] = NoClient
          THEN /\ CreateFails(p, NoneExc("create_collection"))
               /\ UNCHANGED <<remoteColls, createSent, calm>>
          ELSE \E remote \in RemoteModes :
                 /\ createSent' = [createSent EXCEPT ![p] = TRUE]
                 /\ IF remote # "up"
                    THEN /\ CreateFails(p, RemoteExc(remote))
                         /\ calm' = [calm EXCEPT ![p] = FALSE]
                         /\ UNCHANGED remoteColls
                    ELSE IF ~DistanceKnown(a.distance)
                    THEN /\ CreateFails(p, Exc("UnexpectedResponse",
                                               "Unexpected Response: 422 (Unprocessable Entity)"))
                         /\ calm' = [calm EXCEPT ![p] = FALSE]
                         /\ UNCHANGED remoteColls
                    ELSE IF RemoteHas(a.name)
                    THEN /\ CreateFails(p, Exc("UnexpectedResponse",
                                               "Unexpected Response: 409 (Conflict)"))
                         /\ calm' = [calm EXCEPT ![p] = FALSE]
                         /\ UNCHANGED remoteColls
                    ELSE /\ remoteColls' = Append(remoteColls,
                                  Stored(a.name, a.vector_size,
                                         DistanceEnum[upper(a.distance)]))
                         /\ LET r == Returned(CreateSuccess(a))
                            IN Finish(p, r, create_qdrant_collection(r))
                         /\ UNCHANGED <<fault, calm>>
    /\ UNCHANGED <<shared, paramsValid, started, op, arg, client, sawNone, listing,
                   calls, raced>>

\* create_collection, lines 162-191: the enum lookup, then the remote call.
create_collection(p) ==
    /\ pc[p] = "create"
    /\ LET a == arg[p]
       IN IF client[p] = NoClient
          THEN /\ CreateFails(p, NoneExc("create_collection"))
               /\ UNCHANGED <<remoteColls, createSent, calm>>
          ELSE IF ~DistanceKnown(a.distance)
          THEN /\ CreateFails(p, DistanceExc(a.distance))
               /\ UNCHANGED <<remoteColls, createSent, calm>>
          ELSE \E remote \in RemoteModes :
                 /\ createSent' = [createSent EXCEPT ![p] = TRUE]
                 /\ IF remote # "up"
                    THEN /\ CreateFails(p, RemoteExc(remote))
                         /\ calm' = [calm EXCEPT ![p] = FALSE]
                         /\ UNCHANGED remoteColls
                    ELSE IF RemoteHas(a.name)
                    THEN /\ CreateFails(p, Exc("UnexpectedResponse",
                                               "Unexpected Response: 409 (Conflict)"))
                         /\ calm' = [calm EXCEPT ![p] = FALSE]
                         /\ UNCHANGED remoteColls
                    ELSE /\ remoteColls' = Append(remoteColls,
                                  Stored(a.name, a.vector_size,
                                         DistanceEnum[upper(a.distance)]))
                         /\ LET r == Returned(CreateSuccess(a))
                            IN Finish(p, r, create_qdrant_collection(r))
                         /\ UNCHANGED <<fault, calm>>
    /\ UNCHANGED <<shared, paramsValid, started, op, arg, client, sawNone, listing,
                   calls, raced>>

Next ==
    \/ \E p \in Procs : Start(p)
    \/ \E p \in Procs : get_client_check(p)
    \/ \E p \in Procs : get_client_create(p)
    \/ \E p \in Procs : get_client_return(p)
    \/ \E p \in Procs : list_collections(p)
    \/ \E p \in Procs : create_collection(p)

Spec == Init /\ [][Next]_vars

(* ------------------------------ properties ---------------------------- *)

Done(p) == pc[p] = "done"

NonEmpty(text) == text # ""

\* C1: check_connection never raises: whatever get_client or the list call
\* raises, it returns a report (answered with HTTP 200), and after a failure the
\* report says disconnected with a non-empty error string.
C1_CheckConnectionNeverRaises ==
    \A p \in Procs :
        (Done(p) /\ op[p] = "connection") =>
            /\ ret[p].kind = "return"
            /\ response[p] = [code |-> 200, body |-> ret[p].value]
            /\ fault[p] # None =>
                  /\ ret[p].value.status = "disconnected"
                  /\ ret[p].value.error # None
                  /\ NonEmpty(ret[p].value.error[1])

\* A check_connection whose list call raised an exception without a message.
C1_Witness ==
    \E p \in Procs :
        /\ Done(p) /\ op[p] = "connection"
        /\ fault[p] = Some(RemoteExc("silent"))
        /\ ret[p].value.error = Some("Unexpected error: ")

\* C2: when the listing succeeds, get_collections_info returns one entry per
\* listed collection, in listing order and under its name; the entry of a
\* failed detail call is exactly {name, error}; and the detail call of every
\* listed collection is issued, whatever happened to the earlier ones.
C2_PerItemIsolation ==
    \A p \in Procs :
        (Done(p) /\ op[p] = "collections" /\ fault[p] = None) =>
            /\ ret[p].kind = "return"
            /\ Len(ret[p].value) = Len(listing[p])
            /\ Len(calls[p]) = Len(listing[p])
            /\ \A i \in 1..Len(listing[p]) :
                  /\ ret[p].value[i].name = listing[p][i].name
                  /\ calls[p][i].name = listing[p][i].name
                  /\ calls[p][i].mode # "up" =>
                        DOMAIN ret[p].value[i] = {"name", "error"}
                  /\ calls[p][i].mode = "up" =>
                        "error" \notin DOMAIN ret[p].value[i]

\* A listing of two or more whose first detail call failed and second succeeded.
C2_Witness ==
    \E p \in Procs :
        /\ Done(p) /\ op[p] = "collections" /\ fault[p] = None
        /\ Len(listing[p]) >= 2
        /\ calls[p][1].mode # "up"
        /\ calls[p][2].mode = "up"
        /\ "error" \in DOMAIN ret[p].value[1]
        /\ "config" \in DOMAIN ret[p].value[2]

\* C3: when get_client or the initial list call fails, get_collections_info
\* raises (no list, no detail call), and the endpoint answers HTTP 500.
C3_ListingFailurePropagates ==
    \A p \in Procs :
        (Done(p) /\ op[p] = "collections" /\ fault[p] # None) =>
            /\ ret[p].kind = "raise"
            /\ ret[p].exc = fault[p][1]
            /\ calls[p] = <<>>
            /\ response[p].code = 500

\* The list call failed although the remote holds collections.
C3_Witness ==
    \E p \in Procs :
        /\ Done(p) /\ op[p] = "collections"
        /\ fault[p] # None /\ client[p] # NoClient
        /\ remoteColls # <<>>
        /\ response[p].code = 500

\* C4: create_collection never raises: every failure is returned as
\* {success: false, error: <message>} and answered with HTTP 400 carrying that
\* message; a success is answered with 200; no request is answered with 500.
C4_CreateFailureIs400 ==
    \A p \in Procs :
        (Done(p) /\ op[p] = "create") =>
            /\ ret[p].kind = "return"
            /\ response[p].code # 500
            /\ IF fault[p] # None
               THEN /\ DOMAIN ret[p].value = {"success", "error"}
                    /\ ret[p].value.success = FALSE
                    /\ NonEmpty(ret[p].value.error)
                    /\ response[p] = [code |-> 400,
                                      body |-> [detail |-> ret[p].value.error]]
               ELSE /\ ret[p].value.success = TRUE
                    /\ response[p] = [code |-> 200, body |-> ret[p].value]

\* A create request with distance "Manhattan" answered with 400.
C4_Witness ==
    \E p \in Procs :
        /\ Done(p) /\ op[p] = "create"
        /\ Join(arg[p].distance) = "Manhattan"
        /\ client[p] # NoClient
        /\ response[p].code = 400

\* C5 as stated: with a handle in hand and a distance string that names no
\* enum member ("Manhattan"), the create call is still dispatched to the remote.
C5_Original ==
    \A p \in Procs :
        (/\ Done(p) /\ op[p] = "create"
         /\ client[p] # NoClient
         /\ Join(arg[p].distance) = "Manhattan") => createSent[p]

\* C5 amended: with a handle in hand and a distance string that names no enum
\* member ("Manhattan"), the enum lookup fails before the create call: nothing
\* is dispatched to the remote, and the lookup's AttributeError is what the
\* error message reports.
C5_LookupFailsBeforeDispatch ==
    \A p \in Procs :
        (/\ Done(p) /\ op[p] = "create"
         /\ client[p] # NoClient
         /\ Join(arg[p].distance) = "Manhattan") =>
            /\ ~createSent[p]
            /\ fault[p] # None
            /\ fault[p][1].type = "AttributeError"
            /\ ret[p].value = [success |-> FALSE,
                               error |-> "Failed to create collection '" \o arg[p].name
                                         \o "': " \o str(fault[p][1])]

\* A "Manhattan" request finished while the remote holds no such collection.
C5_Witness ==
    \E p \in Procs :
        /\ Done(p) /\ op[p] = "create"
        /\ client[p] # NoClient
        /\ Join(arg[p].distance) = "Manhattan"
        /\ ~RemoteHas(arg[p].name)
        /\ response[p].code = 400

\* C6 as stated: GET /qdrant/status always answers 200; after a failure of
\* get_client or of the list call the body says disconnected with a non-empty
\* error, otherwise connected with the number of listed collections.
C6_StatusNeverErrors ==
    \A p \in Procs :
        (Done(p) /\ op[p] = "status") =>
            /\ response[p].code = 200
            /\ IF fault[p] # None
               THEN /\ response[p].body.status = "disconnected"
                    /\ NonEmpty(response[p].body.error)
               ELSE /\ response[p].body.status = "connected"
                    /\ response[p].body.collections_count = Len(listing[p])

\* What a request needs in order to succeed, the handle apart: valid connection
\* parameters, remote calls that succeed, a known distance, counts that add up.
Clean(p) ==
    /\ paramsValid
    /\ calm[p]
    /\ op[p] = "create" => upper(arg[p].distance) \in {"COSINE", "EUCLID", "DOT"}
    /\ op[p] = "connection" =>
          \A i \in 1..Len(listing[p]) : listing[p][i].vectors_count.kind # "none"

Success(p) ==
    /\ response[p].code = 200
    /\ CASE op[p] = "connection"  -> response[p].body.status = "connected"
         [] op[p] = "status"      -> response[p].body.status = "connected"
         [] op[p] = "collections" -> "collections" \in DOMAIN response[p].body
         [] op[p] = "create"      -> response[p].body.success = TRUE

\* C7: a request that found _client None, however it interleaves with another
\* such request inside get_client, gets a usable handle and, the remote being
\* reachable, returns its success response; the facade then holds a handle.
C7_RacingFirstRequestsSucceed ==
    \A p \in Procs :
        (Done(p) /\ sawNone[p] /\ Clean(p)) =>
            /\ client[p] # NoClient
            /\ Success(p)
            /\ _client # NoClient

\* Two requests raced through the None test, each built a handle, both succeeded.
C7_Witness ==
    /\ raced
    /\ created = 2
    /\ \A p \in Procs : Done(p) /\ sawNone[p] /\ Clean(p) /\ Success(p)

\* C8 as stated: get_client constructs at most one handle, and all requests
\* use that one handle.
C8_Original ==
    /\ created <= 1
    /\ \A p, q \in Procs :
          (client[p] # NoClient /\ client[q] # NoClient) => client[p] = client[q]

\* C8 amended: at most one handle is constructed unless two requests are
\* inside get_client's None branch together (each of them then constructs
\* one); a get_client call that finds _client set constructs nothing; every
\* get_client call that returns hands out the handle stored at that moment;
\* and _client, once set, is never None again.
C8_OneHandleUnlessRaced ==
    [][ /\ ~raced' => created' <= 1
        /\ created' <= Cardinality(Procs)
        /\ _client # NoClient => _client' # NoClient
        /\ \A p \in Procs :
              /\ (pc[p] = "gc_check" /\ pc'[p] # "gc_check" /\ _client # NoClient) =>
                    (pc'[p] = "gc_return" /\ created' = created /\ _client' = _client)
              /\ (pc[p] = "gc_return" /\ pc'[p] # "gc_return") =>
                    (client'[p] = _client /\ client'[p] # NoClient /\ created' = created)
      ]_vars

\* After a race built two handles, a later request reuses the surviving one.
C8_Witness ==
    /\ raced
    /\ created = 2
    /\ \E p \in Procs : Done(p) /\ ~sawNone[p] /\ client[p] = _client

FailureResponse(p) ==
    \/ response[p].code \in {400, 500}
    \/ op[p] = "status" /\ response[p].body.status = "disconnected"

\* C9 as stated: every failure response of the qdrant endpoints is a JSON
\* object with a message field.
C9_Original ==
    \A p \in Procs :
        (Done(p) /\ FailureResponse(p)) => "message" \in DOMAIN response[p].body

\* C9 amended: every failure response is a JSON object carrying a non-empty
\* text: the 400 and 500 responses under the field detail (and no message
\* field), the disconnected response of /qdrant/status under message.
C9_FailuresCarryText ==
    \A p \in Procs :
        (Done(p) /\ FailureResponse(p)) =>
            IF response[p].code \in {400, 500}
            THEN /\ DOMAIN response[p].body = {"detail"}
                 /\ NonEmpty(response[p].body.detail)
            ELSE /\ "message" \in DOMAIN response[p].body
                 /\ NonEmpty(response[p].body.message)

\* A 500 of GET /qdrant/collections caused by an exception without a message.
C9_Witness ==
    \E p \in Procs :
        /\ Done(p) /\ op[p] = "collections"
        /\ fault[p] = Some(RemoteExc("silent"))
        /\ response[p].code = 500

\* C10: a report of check_connection is connected iff its error is None, iff
\* its server_info and response_time_ms are both set; a disconnected report has
\* neither of them and no collections; a connected report counts its collections.
C10_ReportConsistent ==
    \A p \in Procs :
        (Done(p) /\ op[p] = "connection") =>
            LET r == ret[p].value
            IN /\ r.status \in {"connected", "disconnected"}
               /\ (r.status = "connected") <=> (r.error = None)
               /\ (r.status = "connected") <=>
                     (r.server_info # None /\ r.response_time_ms # None)
               /\ r.status = "disconnected" =>
                     /\ r.server_info = None
                     /\ r.response_time_ms = None
                     /\ r.collections = <<>>
               /\ r.status = "connected" =>
                     r.server_info[1].collections_count = Len(r.collections)

\* The list call succeeded with collections whose counts are None: the totals
\* raise after it, and the report is a disconnected one.
C10_Witness ==
    \E p \in Procs :
        /\ Done(p) /\ op[p] = "connection"
        /\ fault[p] = None
        /\ Len(listing[p]) >= 1
        /\ listing[p][1].vectors_count.kind = "none"
        /\ ret[p].value.status = "disconnected"

=============================================================================
